---- MODULE Spec2Model ----
(***************************************************************************)
(* Model of the sharded gateway client's manager (WebSocketManager): the   *)
(* shard list computation of spawn(), the identify admission queue         *)
(* (queueShard over an AsyncQueue), the session start limit check, the     *)
(* 5 s identify cooldown and the re-queueing on an invalid session,        *)
(* restarts, fatal closes and destroy(); and of one shard runtime          *)
(* (Worker.ts) with its control channel.                                   *)
(* Time is counted in seconds.  WebSocketShard is not part of the sources  *)
(* at hand; what the manager needs of it (status, connect's reply, the     *)
(* requests it forwards to the manager) is modelled from the specification.*)
(***************************************************************************)
EXTENDS Integers, Sequences, FiniteSets, TLC

\* ------------------------------------------------------------------ bounds
MaxInv == 3        \* queueShard invocations in one run
MaxShards == 2     \* largest shard count (options.shards = N, gateway's shards)
MaxReset == 2      \* largest session_start_limit.reset_after, in seconds
MaxList == 3       \* longest options.shards array
MaxMsgs == 4       \* messages the manager posts to one shard runtime
MaxSeq == 2        \* largest sequence number of a session
MaxSess == 2       \* sessions one shard runtime establishes
MaxPing == 2       \* largest ping sample of a shard
MaxEmit == 3       \* dispatches followed from the gateway to a subscriber

\* ------------------------------------------------------- program constants
IdentifyCooldown == 5      \* sleep(5000)

VARIABLES
    token,        \* #token is set (TRUE) or null (FALSE)
    options,      \* options.shards (mode, n, list) and options.totalShards (0 = null)
    gatewayInfo,  \* #gatewayInfo: shards, remaining, reset_after
    spawnPc,      \* position of the spawn() call
    spawnList,    \* the shard list spawn() computed
    shards,       \* the Cache id -> shard instance (0 = no entry)
    objs,         \* the WebSocketShard instances ever created
    nextObj,      \* next free instance number
    promises,     \* AsyncQueue.promises: one deferred per queueShard invocation
    released,     \* the deferreds AsyncQueue.shift() has resolved
    inv,          \* the queueShard invocations
    nextInv,      \* next free invocation number
    obs,          \* observations: clocks and histories the properties read
    worker        \* one shard runtime (Worker.ts) and its control channel

vars == <<token, options, gatewayInfo, spawnPc, spawnList, shards, objs, nextObj,
          promises, released, inv, nextInv, obs, worker>>

mgrVars == <<token, options, gatewayInfo, spawnPc, spawnList>>

Min(a, b) == IF a < b THEN a ELSE b

Range(s) == {s[k] : k \in 1..Len(s)}

IdSet == 0..MaxShards

InvSet == 1..MaxInv

\* --------------------------------------------------------- options.shards
\* An element of an options.shards array: a number, NaN, or something that is
\* not a number (a string, undefined).
Num(n) == [k |-> "number", nan |-> FALSE, v |-> n]

NaNItem == [k |-> "number", nan |-> TRUE, v |-> 0]

StrItem == [k |-> "string", nan |-> FALSE, v |-> 0]

Items == {Num(n) : n \in IdSet} \cup {NaNItem, StrItem}

\* item => typeof item === 'number' && !Number.isNaN(item)
KeepItem_TypeOnly(item) == item.k = "number"

KeepItem(item) == item.k = "number" /\ ~item.nan

\* this.options.shards.filter(...), pushed onto shards
RECURSIVE FilterItems(_)
FilterItems(list) ==
    IF list = <<>> THEN <<>>
    ELSE IF KeepItem(Head(list))
         THEN <<Head(list).v>> \o FilterItems(Tail(list))
         ELSE FilterItems(Tail(list))

\* for (let i = 0; i < n; i++) shards.push(i)
RECURSIVE PushRange(_, _, _)
PushRange(list, i, n) ==
    IF i < n THEN PushRange(Append(list, i), i + 1, n) ELSE list

\* The list of shards spawn() builds and the totalShards it leaves in the
\* options; error is TRUE when spawn() throws instead.
ShardList(opt, gw) ==
    IF opt.mode = "list"
    THEN IF opt.totalShards = 0
         THEN [error |-> TRUE, list |-> <<>>, totalShards |-> opt.totalShards]
         ELSE [error |-> FALSE, list |-> FilterItems(opt.list),
               totalShards |-> opt.totalShards]
    ELSE IF opt.mode = "auto"
    THEN [error |-> FALSE, list |-> PushRange(<<>>, 0, gw.shards),
          totalShards |-> gw.shards]
    ELSE [error |-> FALSE, list |-> PushRange(<<>>, 0, opt.n),
          totalShards |-> opt.n]

\* ------------------------------------------------------------- AsyncQueue
\* wait(): the promise the caller awaits is the one of the last deferred in
\* the queue (0: an already resolved promise when the queue is empty).
AQNext_Resolved(p) == 0

AQNext_First(p) == IF Len(p) > 0 THEN p[1] ELSE 0

AQNext(p) == IF Len(p) > 0 THEN p[Len(p)] ELSE 0

\* wait(): the caller's own deferred goes to the back of the queue.
AQPush(p, i) == Append(p, i)

\* shift(): the first deferred leaves the queue ...
AQShiftQueue(p) == IF p = <<>> THEN p ELSE Tail(p)

\* ... and is resolved.
AQShiftResolved_None(p, rel) == rel

AQShiftResolved(p, rel) == IF p = <<>> THEN rel ELSE rel \cup {Head(p)}

\* remaining: the number of deferreds in the queue.
AQRemaining(p) == Len(p)

\* The promise w returned by wait() has been resolved.
Resolved(w, rel) == w = 0 \/ w \in rel

\* ------------------------------------------------------------- queueShard
NoInv == [id |-> 0, pc |-> "none", waitsOn |-> 0, shard |-> 0, timer |-> 0,
          origin |-> "none", fetched |-> FALSE, granted |-> FALSE, replies |-> 0,
          ahead |-> {}, old |-> 0]

NoObj == [id |-> 0, status |-> "none", total |-> 0, session |-> FALSE, madeBy |-> 0,
          ping |-> 0]

\* this.shards.delete(id)
CacheDelete_Keep(c, id) == c

CacheDelete(c, id) == [c EXCEPT ![id] = 0]

\* The invocations that hold the queue slot: past `await this.#queue.wait()`
\* and not yet at `this.#queue.shift()`.
InSlot == {"fetch", "limit", "connect", "cooldown"}

Holders == {i \in InvSet : inv[i].pc \in InSlot}

\* queueShard(id) up to its first await: wait() is called, the invocation is
\* suspended on the promise it returned.  q = [promises, inv, nextInv].
\* `ahead` notes who was in the queue at that moment.
Enqueue(q, id, origin) ==
    LET i == q.nextInv IN
    [promises |-> AQPush(q.promises, i),
     inv |-> [q.inv EXCEPT ![i] =
                 [NoInv EXCEPT !.id = id, !.pc = "wait", !.origin = origin,
                               !.waitsOn = AQNext(q.promises),
                               !.ahead = Range(q.promises)]],
     nextInv |-> i + 1]

\* this.queueShard(id) after an InvalidSession reply
Requeue_Dropped(q, id) == q

Requeue(q, id) == Enqueue(q, id, "requeue")

\* shards.map(id => this.queueShard(id))
RECURSIVE EnqueueAll(_, _, _)
EnqueueAll(q, ids, origin) ==
    IF ids = <<>> THEN q
    ELSE EnqueueAll(Enqueue(q, Head(ids), origin), Tail(ids), origin)

\* A continuation of `await this.#queue.wait()` is ready to run.  Promise
\* continuations are microtasks: they run before the event loop takes the
\* next timer, REST answer or shard message.
MicrotaskPending ==
    \E i \in InvSet : inv[i].pc = "wait" /\ Resolved(inv[i].waitsOn, released)

\* if (this.#queue.remaining > 1) ... await sleep(5000)
NeedsCooldown_Never(p) == FALSE

NeedsCooldown(p) == AQRemaining(p) > 1

\* await sleep(resetAfter) when remaining === 0
LimitSleep_None(resp) == 0

LimitSleep(resp) == resp.reset_after

\* handleSessionLimit: if (remaining === 0)
LimitReached(resp) == resp.remaining = 0

\* ------------------------------------------------------------------ debug
\* Two token values, to compare the runs that differ in the token only.
TokenValues == {"tokenA", "tokenB"}

\* `${n}`: the digits of the numbers interpolated in a template.
Digits(ns) == [k \in 1..Len(ns) |-> ToString(ns[k])]

\* debug(message): the emitted string is made of the manager's totalShards
\* and of the message, itself a text with the operands of its template.
Debug_WithToken(tok, total, text, args) ==
    [total |-> ToString(total), text |-> text, args |-> Append(Digits(args), tok)]

Debug(tok, total, text, args) ==
    [total |-> ToString(total), text |-> text, args |-> Digits(args)]

\* The debug messages of spawn(): the session limit, the shard queue.
SpawnDebug(tok, total, resp, list) ==
    <<Debug(tok, total, "Session Limit", <<resp.remaining, resp.reset_after>>),
      Debug(tok, total, "Shard Queue", list)>>

\* The debug message of handleSessionLimit.
LimitDebug(tok, total, resp) ==
    IF LimitReached(resp)
    THEN <<Debug(tok, total, "Session Identify Limit reached", <<resp.reset_after>>)>>
    ELSE <<>>

\* The debug messages of queueShard after the shard's reply.
ReplyDebug(tok, total, id, invalid, cool, remaining) ==
    (IF invalid THEN <<Debug(tok, total, "Invalid Session Requeued", <<id>>)>> ELSE <<>>)
    \o (IF cool THEN <<Debug(tok, total, "Queue Size", <<remaining - 1>>)>> ELSE <<>>)

\* The string contains the token.
HasToken(msg, tok) == tok \in Range(msg.args) \/ msg.text = tok \/ msg.total = tok

\* ------------------------------------------------------------------- Init
\* What GET /gateway/bot may answer: sessions left (with a reset time that
\* then plays no part), or none left and any reset time.
GatewayResponses ==
    {[shards |-> n, remaining |-> 1, reset_after |-> MaxReset] : n \in 1..MaxShards}
    \cup [shards : 1..MaxShards, remaining : {0}, reset_after : 0..MaxReset]

\* In the runs of the admission queue the gateway recommends MaxShards shards.
MainResponses == {r \in GatewayResponses : r.shards = MaxShards}

NoGateway == [shards |-> 0, remaining |-> 0, reset_after |-> 0]

Option(mode, n, list, total) ==
    [mode |-> mode, n |-> n, list |-> list, totalShards |-> total]

\* The configurations of the admission queue's runs.
MainOptions ==
    {Option("number", n, <<>>, 0) : n \in 1..MaxShards}
    \cup {Option("list", 0, <<Num(1), StrItem, Num(0)>>, MaxShards)}

ObsInit ==
    [sinceGrant |-> IdentifyCooldown,  \* seconds since the last identify grant (capped)
     fetchAge |-> 0,                   \* age of the gateway info of the admission under way
     grants |-> 0,                     \* identify grants so far (capped at 2)
     minGap |-> IdentifyCooldown,      \* least time between two consecutive grants (capped)
     grantAge |-> 0,                   \* age of the gateway info at the grant under way
     acquired |-> <<>>,                \* invocations in the order they got the slot
     online |-> <<>>,                  \* shard ids in the order they first became ready
     invalidated |-> {},               \* shard ids answered InvalidSession and not ready since
     configTotal |-> 0,                \* options.totalShards as configured
     fatal |-> {},                     \* shard ids closed with a fatal close code
     errors |-> {},                    \* shard ids an error was emitted for
     destroyed |-> FALSE,              \* destroy() was called
     debug |-> [v \in TokenValues |-> <<>>],  \* the debug messages of the last step
                                       \* that emitted some, for each token value
     ping |-> [kind |-> "unread", num |-> 0, den |-> 0]]  \* the ping last read

\* ----------------------------------------------------------- shard runtime
\* The runtime of one shard (Worker.ts and its WebSocketConnection) with the
\* two directions of its control channel.  WebSocketConnection is not part
\* of the sources at hand: the protocol steps are those of the specification.
NoAuth == [kind |-> "none", sid |-> 0, seq |-> 0]

\* The shard runtime before its first connection.
WorkerInit ==
    [open |-> FALSE,          \* the transport is open
     helloed |-> FALSE,       \* HELLO was received on this connection
     status |-> "Disconnected",
     sid |-> 0,               \* session_id (0: no session)
     seq |-> 0,               \* seq of the session
     sessions |-> 0,          \* sessions established so far
     sendQueue |-> <<>>,      \* outbound payloads not yet written
     hb |-> FALSE,            \* the heartbeat timer is running
     acked |-> TRUE,          \* the last heartbeat was acknowledged
     inbox |-> <<>>,          \* messages of the manager not yet handled
     posted |-> 0,            \* messages the manager has posted
     sent |-> {},             \* kinds of message the runtime has posted
     requested |-> FALSE,     \* the runtime asked for admission, no grant yet
     admitted |-> FALSE,      \* a grant is held for the next handshake
     grants |-> 0,            \* Identify messages handled
     identifies |-> 0,        \* IDENTIFY frames written
     fetches |-> 0,           \* FetchSessionData messages handled
     teardown |-> "none",     \* what closed the last connection
     closeCode |-> 0,         \* the code it was closed with
     pre |-> NoAuth,          \* the session at the last teardown
     preQueue |-> {},         \* the payloads queued at the last teardown
     authAfter |-> NoAuth,    \* first IDENTIFY/RESUME written after it
     asked |-> FALSE,         \* admission was asked for since the last teardown
     early |-> FALSE,         \* a frame was written before HELLO
     connIdent |-> 0,         \* IDENTIFY frames written on this connection (capped)
     connResume |-> 0,        \* RESUME frames written on this connection (capped)
     authsSince |-> 0,        \* IDENTIFY/RESUME frames written since the connection
                              \* opened or the last INVALID_SESSION (capped)
     unacked |-> 0,           \* heartbeats written since the last ack (capped)
     beatUnacked |-> "none",  \* a heartbeat was written while acked was false:
                              \* "timer", "request" or "none"
     high |-> 0,              \* the highest s received in the session
     stale |-> FALSE,         \* a dispatch with s below seq was received
     inval |-> "none",        \* the INVALID_SESSION not yet followed by Ready, RESUMED
                              \* or a close: "resumable" (d = true, of a session),
                              \* "final" or "none"
     invalid |-> {},          \* the sessions invalidated with d = false
     resume |-> NoAuth,       \* the RESUME frame written and not yet answered
     badResume |-> FALSE,     \* a RESUME was written without a session or with an
                              \* invalidated one
     subscribed |-> FALSE,    \* a subscriber listens: the dispatches are followed
     emitted |-> <<>>,        \* the s of the dispatches the gateway emitted, in order
     channel |-> <<>>,        \* the s of the Dispatch messages not yet handled by
                              \* the manager
     delivered |-> <<>>]      \* the s of the dispatches given to the subscriber

\* MasterWorkerMessages: the kinds of message of the manager.
MasterMessageTypes_WithStatus ==
    {"Identify", "Destroy", "Reconnect", "PayloadDispatch", "FetchSessionData",
     "GatewayStatus"}

MasterMessageTypes ==
    {"Identify", "Destroy", "Reconnect", "PayloadDispatch", "FetchSessionData"}

\* WorkerMasterMessages: the kinds of message of the runtime.
WorkerMessageTypes ==
    {"Debug", "Dispatch", "Identify", "ScheduleIdentify", "UpdatePing", "GatewayStatus",
     "CannotReconnect", "ConnectionStatusUpdate", "PayloadDispatch", "FetchSessionData"}

\* The switch of the message handler: what is called for a message type.
Handler_DestroyKeepsSession(type) ==
    CASE type = "Identify" -> "newSession"
      [] type = "Destroy" -> "destroy"
      [] type = "Reconnect" -> "destroy"
      [] type = "PayloadDispatch" -> "queueWSPayload"
      [] OTHER -> "nothing"

Handler_ReconnectIdentifies(type) ==
    CASE type = "Identify" -> "newSession"
      [] type = "Destroy" -> "destroyReset"
      [] type = "Reconnect" -> "newSession"
      [] type = "PayloadDispatch" -> "queueWSPayload"
      [] OTHER -> "nothing"

Handler_OtherDestroys(type) ==
    CASE type = "Identify" -> "newSession"
      [] type = "Destroy" -> "destroyReset"
      [] type = "Reconnect" -> "destroy"
      [] type = "PayloadDispatch" -> "queueWSPayload"
      [] OTHER -> "destroy"

Handler(type) ==
    CASE type = "Identify" -> "newSession"
      [] type = "Destroy" -> "destroyReset"
      [] type = "Reconnect" -> "destroy"
      [] type = "PayloadDispatch" -> "queueWSPayload"
      [] OTHER -> "nothing"

\* The runtime posts a message to the manager.
Post(w, type) == [w EXCEPT !.sent = @ \cup {type}]

\* The runtime forwards a dispatch numbered s: a Dispatch message is posted.
Forward(w, s) ==
    IF w.subscribed
    THEN [Post(w, "Dispatch") EXCEPT !.emitted = Append(@, s), !.channel = Append(@, s)]
    ELSE Post(w, "Dispatch")

\* The message the manager handles next: the channel is first in, first out.
ChannelNext_Last(c) == Len(c)

ChannelNext(c) == 1

\* A frame is written to the gateway.
WriteFrame(w) == [w EXCEPT !.early = @ \/ ~w.helloed]

\* The first IDENTIFY or RESUME written since the last teardown.
NoteAuth(w, kind) ==
    LET c == [w EXCEPT !.authsSince = Min(@ + 1, 2)]
    IN IF c.authAfter.kind = "none"
       THEN [c EXCEPT !.authAfter = [kind |-> kind, sid |-> w.sid, seq |-> w.seq]]
       ELSE c

\* An IDENTIFY frame is written.
SendIdentify(w) ==
    NoteAuth(WriteFrame([w EXCEPT !.identifies = @ + 1, !.status = "Identifying",
                                  !.admitted = FALSE,
                                  !.connIdent = Min(@ + 1, 2)]), "identify")

\* A RESUME frame is written, with the session_id and seq of the session.
SendResume(w) ==
    NoteAuth(WriteFrame([w EXCEPT !.status = "Resuming",
                                  !.connResume = Min(@ + 1, 2),
                                  !.resume = [kind |-> "resume", sid |-> w.sid,
                                              seq |-> w.seq],
                                  !.badResume = @ \/ w.sid = 0 \/ w.sid \in w.invalid]),
             "resume")

\* connection.newSession(): the admission is granted.  A runtime waiting for
\* it after HELLO identifies; otherwise the grant is kept for the handshake.
NewSession(w) ==
    IF w.open /\ w.status = "AwaitAdmission"
    THEN SendIdentify(w)
    ELSE [w EXCEPT !.admitted = TRUE]

\* The transport is closed with a code: the heartbeat timer is torn down.
CloseTransport_KeepTimer(w, type, code, status) ==
    [w EXCEPT !.open = FALSE, !.helloed = FALSE, !.status = status,
              !.acked = TRUE, !.unacked = 0,
              !.teardown = type, !.closeCode = code,
              !.pre = [kind |-> "none", sid |-> w.sid, seq |-> w.seq],
              !.preQueue = Range(w.sendQueue),
              !.authAfter = NoAuth, !.asked = FALSE, !.inval = "none",
              !.resume = NoAuth]

CloseTransport(w, type, code, status) ==
    [w EXCEPT !.open = FALSE, !.helloed = FALSE, !.status = status,
              !.hb = FALSE, !.acked = TRUE, !.unacked = 0,
              !.teardown = type, !.closeCode = code,
              !.pre = [kind |-> "none", sid |-> w.sid, seq |-> w.seq],
              !.preQueue = Range(w.sendQueue),
              !.authAfter = NoAuth, !.asked = FALSE, !.inval = "none",
              !.resume = NoAuth]

\* The session is discarded.
DiscardSession(w) ==
    [w EXCEPT !.sid = 0, !.seq = 0, !.high = 0, !.stale = FALSE, !.resume = NoAuth]

\* connection.destroy({ resetSession }): the transport is closed (1000 with
\* resetSession, 4000 without), the heartbeat stopped; with resetSession the
\* session is discarded and the queued payloads dropped.
DestroyConnection(w, resetSession, type) ==
    IF resetSession
    THEN [DiscardSession(CloseTransport(w, type, 1000, "Disconnected"))
            EXCEPT !.sendQueue = <<>>]
    ELSE CloseTransport(w, type, 4000, "Disconnected")

\* connection.queueWSPayload(data)
QueueWSPayload_WriteNow(w, data) == WriteFrame(w)

QueueWSPayload(w, data) == [w EXCEPT !.sendQueue = Append(@, data)]

\* The runtime asks the manager for admission.
RequestAdmission_AndIdentify(w, type) ==
    [Post(SendIdentify(w), type) EXCEPT !.status = "AwaitAdmission",
                                        !.requested = TRUE, !.asked = TRUE]

RequestAdmission(w, type) ==
    [Post(w, type) EXCEPT !.status = "AwaitAdmission", !.requested = TRUE,
                          !.asked = TRUE]

\* INVALID_SESSION(d) of a runtime with the session sid (0: none): the session
\* can be resumed.
Resumable_Always(d, sid) == sid # 0

Resumable(d, sid) == d /\ sid # 0

\* seq after a dispatch numbered s: seq = max(seq, s)
SeqAfter_Assign(seq, s) == s

SeqAfter(seq, s) == IF s > seq THEN s ELSE seq

\* The heartbeat timer fires with the last heartbeat not acknowledged.
Zombie_Never(w) == FALSE

Zombie(w) == ~w.acked

\* A heartbeat is written: acked is cleared.
WriteHeartbeat(w, cause) ==
    [WriteFrame(w) EXCEPT !.acked = FALSE, !.unacked = Min(@ + 1, 2),
                          !.beatUnacked = IF w.acked THEN @ ELSE cause]

\* WSCloseCodes: the names in the order of the enum, with the value the enum
\* gives explicitly (0: the value after the one before).
WSCloseCodesEnum_NoGap ==
    <<[name |-> "UnknownError", value |-> 4000],
      [name |-> "UnknownOpCode", value |-> 0],
      [name |-> "DecodeError", value |-> 0],
      [name |-> "NotAuthenticated", value |-> 0],
      [name |-> "AuthenticationFailed", value |-> 0],
      [name |-> "AlreadyAuthenticated", value |-> 0],
      [name |-> "InvalidSeq", value |-> 0],
      [name |-> "RateLimited", value |-> 0],
      [name |-> "SessionTimeout", value |-> 0],
      [name |-> "InvalidShard", value |-> 0],
      [name |-> "ShardingRequired", value |-> 0],
      [name |-> "InvalidVersion", value |-> 0],
      [name |-> "InvalidIntents", value |-> 0],
      [name |-> "DisallowedIntents", value |-> 0],
      [name |-> "ReconnectRequested", value |-> 4900]>>

WSCloseCodesEnum ==
    <<[name |-> "UnknownError", value |-> 4000],
      [name |-> "UnknownOpCode", value |-> 0],
      [name |-> "DecodeError", value |-> 0],
      [name |-> "NotAuthenticated", value |-> 0],
      [name |-> "AuthenticationFailed", value |-> 0],
      [name |-> "AlreadyAuthenticated", value |-> 0],
      [name |-> "InvalidSeq", value |-> 4007],
      [name |-> "RateLimited", value |-> 0],
      [name |-> "SessionTimeout", value |-> 0],
      [name |-> "InvalidShard", value |-> 0],
      [name |-> "ShardingRequired", value |-> 0],
      [name |-> "InvalidVersion", value |-> 0],
      [name |-> "InvalidIntents", value |-> 0],
      [name |-> "DisallowedIntents", value |-> 0],
      [name |-> "ReconnectRequested", value |-> 4900]>>

\* The value of the k-th member of the enum.
RECURSIVE EnumValue(_)
EnumValue(k) ==
    IF WSCloseCodesEnum[k].value # 0 THEN WSCloseCodesEnum[k].value
    ELSE EnumValue(k - 1) + 1

\* WSCloseCodes.<name>
WSCloseCode(name) ==
    EnumValue(CHOOSE k \in 1..Len(WSCloseCodesEnum) : WSCloseCodesEnum[k].name = name)

\* The close codes of a failed authentication and of a refused configuration.
FatalCloseNames ==
    {"NotAuthenticated", "AuthenticationFailed", "InvalidShard", "ShardingRequired",
     "InvalidVersion", "InvalidIntents", "DisallowedIntents"}

\* What the runtime does after a close with the code: it reports
\* CannotReconnect, or it reconnects and resumes.
FatalCloseCodes == {WSCloseCode(n) : n \in FatalCloseNames}

ClosePolicy(code) ==
    IF code \in FatalCloseCodes
    THEN "CannotReconnect"
    ELSE "resume"

StartWith(opts, w) ==
    /\ worker = w
    /\ token \in BOOLEAN
    /\ options \in opts
    /\ gatewayInfo = NoGateway
    /\ spawnPc = "idle"
    /\ spawnList = <<>>
    /\ shards = [id \in IdSet |-> 0]
    /\ objs = [o \in InvSet |-> NoObj]
    /\ nextObj = 1
    /\ promises = <<>>
    /\ released = {}
    /\ inv = [i \in InvSet |-> NoInv]
    /\ nextInv = 1
    /\ obs = [ObsInit EXCEPT !.configTotal = options.totalShards]

InitWith(opts) == StartWith(opts, WorkerInit)

Init == InitWith(MainOptions)

\* ------------------------------------------------------------------ spawn
\* set token(token)
SetToken ==
    /\ ~MicrotaskPending
    /\ ~token
    /\ token' = TRUE
    /\ UNCHANGED <<options, gatewayInfo, spawnPc, spawnList, shards, objs, nextObj,
                   promises, released, inv, nextInv, obs>>
    /\ UNCHANGED worker

\* if (!this.#token) throw
TokenMissing_Never(t) == FALSE

TokenMissing(t) == ~t

\* spawn() up to `await this.api.get(Routes.gatewayBot())`
SpawnCall ==
    /\ ~MicrotaskPending
    /\ spawnPc = "idle"
    /\ spawnPc' = IF TokenMissing(token) THEN "noToken" ELSE "fetching"
    /\ UNCHANGED <<token, options, gatewayInfo, spawnList, shards, objs, nextObj,
                   promises, released, inv, nextInv, obs>>
    /\ UNCHANGED worker

\* The gateway info arrives: the shard list is computed and every shard of it
\* is queued.
SpawnGateway(resp) ==
    /\ ~MicrotaskPending
    /\ spawnPc = "fetching"
    /\ gatewayInfo' = resp
    /\ LET sl == ShardList(options, resp)
           q == EnqueueAll([promises |-> promises, inv |-> inv, nextInv |-> nextInv],
                           sl.list, "spawn")
       IN IF sl.error
          THEN /\ spawnPc' = "badConfig"
               /\ UNCHANGED <<options, spawnList, promises, inv, nextInv, obs>>
          ELSE /\ spawnPc' = "queued"
               /\ options' = [options EXCEPT !.totalShards = sl.totalShards]
               /\ spawnList' = sl.list
               /\ promises' = q.promises
               /\ inv' = q.inv
               /\ nextInv' = q.nextInv
               /\ obs' = [obs EXCEPT !.debug =
                            [v \in TokenValues |->
                                SpawnDebug(v, sl.totalShards, resp, sl.list)]]
    /\ UNCHANGED <<token, shards, objs, nextObj, released>>
    /\ UNCHANGED worker

\* The REST call of spawn() fails.
SpawnGatewayFail ==
    /\ ~MicrotaskPending
    /\ spawnPc = "fetching"
    /\ spawnPc' = "restFailed"
    /\ UNCHANGED <<token, options, gatewayInfo, spawnList, shards, objs, nextObj,
                   promises, released, inv, nextInv, obs>>
    /\ UNCHANGED worker

\* ------------------------------------------------------- queueShard steps
\* const status = await shard.connect(token): the identify grant; the
\* invocation is suspended until the shard's reply.
AwaitConnect_NoAwait(v, i) ==
    [v EXCEPT ![i].pc = "cooldown", ![i].granted = TRUE, ![i].timer = 0]

AwaitConnect(v, i) == [v EXCEPT ![i].pc = "connect", ![i].granted = TRUE]

\* WebSocketShard.connect: the shard starts to identify.
ShardConnect(b, o) == [b EXCEPT ![o].status = "Connecting"]

\* The shard's answer to the identify: Ready establishes a session,
\* InvalidSession discards it.
ShardReply(b, o, status) ==
    [b EXCEPT ![o].status = IF status = "Ready" THEN "Connected" ELSE "Disconnected",
              ![o].session = (status = "Ready")]

ObsGrant(b) ==
    [b EXCEPT !.grants = Min(@ + 1, 2),
              !.minGap = IF b.grants = 0 THEN @ ELSE Min(@, b.sinceGrant),
              !.sinceGrant = 0,
              !.grantAge = b.fetchAge,
              !.fetchAge = 0]

\* if (shard.status === WebSocketShardStatus.Connected) return
AlreadyConnected_Never(status) == FALSE

AlreadyConnected(status) == status = "Connected"

\* The invocation resumes from queue.wait(): getShard, the Connected check,
\* then handleSessionLimit's REST call.
Acquire(i) ==
    /\ inv[i].pc = "wait"
    /\ Resolved(inv[i].waitsOn, released)
    /\ LET id == inv[i].id
           isNew == shards[id] = 0
           o == IF isNew THEN nextObj ELSE shards[id]
           objs1 == IF isNew
                    THEN [objs EXCEPT ![o] = [id |-> id, status |-> "Disconnected",
                                              total |-> options.totalShards,
                                              session |-> FALSE, madeBy |-> i,
                                              ping |-> 0]]
                    ELSE objs
       IN /\ shards' = [shards EXCEPT ![id] = o]
          /\ objs' = objs1
          /\ nextObj' = IF isNew THEN nextObj + 1 ELSE nextObj
          /\ IF AlreadyConnected(objs1[o].status)
             THEN /\ inv' = [inv EXCEPT ![i].pc = "done", ![i].shard = o]
                  /\ promises' = AQShiftQueue(promises)
                  /\ released' = AQShiftResolved(promises, released)
             ELSE /\ inv' = [inv EXCEPT ![i].pc = "fetch", ![i].shard = o]
                  /\ UNCHANGED <<promises, released>>
    /\ obs' = [obs EXCEPT !.acquired = Append(@, i)]
    /\ UNCHANGED <<mgrVars, nextInv>>
    /\ UNCHANGED worker

\* handleSessionLimit: the gateway info arrives.  With remaining = 0 the
\* invocation sleeps reset_after, otherwise it goes on to shard.connect.
FetchResolve(i, resp) ==
    /\ ~MicrotaskPending
    /\ inv[i].pc = "fetch"
    /\ resp.shards = gatewayInfo.shards
    /\ gatewayInfo' = resp
    /\ IF LimitReached(resp)
       THEN /\ inv' = [inv EXCEPT ![i].pc = "limit", ![i].fetched = TRUE,
                                   ![i].timer = LimitSleep(resp)]
            /\ obs' = [obs EXCEPT !.fetchAge = 0,
                                  !.debug = [v \in TokenValues |->
                                      LimitDebug(v, options.totalShards, resp)]]
            /\ UNCHANGED objs
       ELSE /\ inv' = AwaitConnect([inv EXCEPT ![i].fetched = TRUE], i)
            /\ obs' = ObsGrant([obs EXCEPT !.fetchAge = 0])
            /\ objs' = ShardConnect(objs, inv[i].shard)
    /\ UNCHANGED <<token, options, spawnPc, spawnList, shards, nextObj, promises,
                   released, nextInv>>
    /\ UNCHANGED worker

\* handleSessionLimit: the REST call fails; the exception leaves queueShard
\* through its finally block.
FetchReject(i) ==
    /\ ~MicrotaskPending
    /\ inv[i].pc = "fetch"
    /\ inv' = [inv EXCEPT ![i].pc = "failed"]
    /\ promises' = AQShiftQueue(promises)
    /\ released' = AQShiftResolved(promises, released)
    /\ UNCHANGED <<mgrVars, shards, objs, nextObj, nextInv, obs>>
    /\ UNCHANGED worker

\* sleep(resetAfter) is over: shard.connect.
LimitElapsed(i) ==
    /\ ~MicrotaskPending
    /\ inv[i].pc = "limit"
    /\ inv[i].timer = 0
    /\ inv' = AwaitConnect(inv, i)
    /\ obs' = ObsGrant(obs)
    /\ objs' = ShardConnect(objs, inv[i].shard)
    /\ UNCHANGED <<mgrVars, shards, nextObj, promises, released, nextInv>>
    /\ UNCHANGED worker

\* shard.connect resolves with the shard's GatewayStatus.  On InvalidSession
\* the shard is queued again; then the cooldown, or the finally block at once.
ConnectReply(i, status) ==
    /\ ~MicrotaskPending
    /\ inv[i].pc = "connect"
    /\ objs[inv[i].shard].status = "Connecting"
    /\ status = "InvalidSession" => nextInv <= MaxInv
    /\ LET o == inv[i].shard
           id == inv[i].id
           q0 == [promises |-> promises,
                  inv |-> [inv EXCEPT ![i].replies = @ + 1],
                  nextInv |-> nextInv]
           q1 == IF status = "InvalidSession" THEN Requeue(q0, id) ELSE q0
           cool == NeedsCooldown(q1.promises)
       IN /\ inv' = [q1.inv EXCEPT ![i].pc = IF cool THEN "cooldown" ELSE "done",
                                   ![i].timer = IF cool THEN IdentifyCooldown ELSE 0]
          /\ promises' = IF cool THEN q1.promises ELSE AQShiftQueue(q1.promises)
          /\ released' = IF cool THEN released
                         ELSE AQShiftResolved(q1.promises, released)
          /\ nextInv' = q1.nextInv
          /\ objs' = ShardReply(objs, o, status)
          /\ obs' = [obs EXCEPT
                       !.online = IF status = "Ready" /\ id \notin Range(@)
                                  THEN Append(@, id) ELSE @,
                       !.invalidated = IF status = "Ready" THEN @ \ {id}
                                       ELSE @ \cup {id},
                       !.grantAge = 0,
                       !.debug = IF status = "InvalidSession" \/ cool
                                 THEN [v \in TokenValues |->
                                         ReplyDebug(v, options.totalShards, id,
                                                    status = "InvalidSession", cool,
                                                    AQRemaining(q1.promises))]
                                 ELSE @]
    /\ UNCHANGED <<mgrVars, shards, nextObj>>
    /\ UNCHANGED worker

\* shard.connect rejects: the exception leaves queueShard through its
\* finally block.
ConnectReject(i) ==
    /\ ~MicrotaskPending
    /\ inv[i].pc = "connect"
    /\ objs[inv[i].shard].status = "Connecting"
    /\ inv' = [inv EXCEPT ![i].pc = "failed"]
    /\ promises' = AQShiftQueue(promises)
    /\ released' = AQShiftResolved(promises, released)
    /\ objs' = [objs EXCEPT ![inv[i].shard].status = "Disconnected"]
    /\ UNCHANGED <<mgrVars, shards, nextObj, nextInv, obs>>
    /\ UNCHANGED worker

\* sleep(5000) is over: the finally block releases the slot.
CooldownElapsed(i) ==
    /\ ~MicrotaskPending
    /\ inv[i].pc = "cooldown"
    /\ inv[i].timer = 0
    /\ inv' = [inv EXCEPT ![i].pc = "done"]
    /\ promises' = AQShiftQueue(promises)
    /\ released' = AQShiftResolved(promises, released)
    /\ UNCHANGED <<mgrVars, shards, objs, nextObj, nextInv, obs>>
    /\ UNCHANGED worker

\* ---------------------------------------------------- requests of a shard
\* A ready shard lost its session and asks to identify again:
\* scheduleIdentify(shard).
ScheduleIdentify(o) ==
    /\ ~MicrotaskPending
    /\ objs[o].status = "Connected"
    /\ nextInv <= MaxInv
    /\ LET q == Enqueue([promises |-> promises, inv |-> inv, nextInv |-> nextInv],
                        objs[o].id, "identify")
       IN /\ promises' = q.promises
          /\ inv' = q.inv
          /\ nextInv' = q.nextInv
    /\ objs' = [objs EXCEPT ![o].status = "Disconnected", ![o].session = FALSE]
    /\ UNCHANGED <<mgrVars, shards, nextObj, released, obs>>
    /\ UNCHANGED worker

\* A ready shard cannot reconnect: scheduleShardRestart(shard) drops the
\* instance and queues the id again.
ScheduleShardRestart(o) ==
    /\ ~MicrotaskPending
    /\ objs[o].status = "Connected"
    /\ nextInv <= MaxInv
    /\ LET q == Enqueue([promises |-> promises, inv |-> inv, nextInv |-> nextInv],
                        objs[o].id, "restart")
       IN /\ promises' = q.promises
          /\ inv' = [q.inv EXCEPT ![nextInv].old = o]
          /\ nextInv' = q.nextInv
    /\ shards' = CacheDelete(shards, objs[o].id)
    /\ objs' = [objs EXCEPT ![o].status = "Disconnected", ![o].session = FALSE]
    /\ UNCHANGED <<mgrVars, nextObj, released, obs>>
    /\ UNCHANGED worker

\* The runtime of a shard that waits to identify again dies: the closure of
\* its control channel is treated as CannotReconnect, and
\* scheduleShardRestart(shard) drops the instance and queues the id again.
ShardDied(o) ==
    /\ ~MicrotaskPending
    /\ objs[o].status = "Disconnected"
    /\ shards[objs[o].id] = o
    /\ nextInv <= MaxInv
    /\ LET q == Enqueue([promises |-> promises, inv |-> inv, nextInv |-> nextInv],
                        objs[o].id, "restart")
       IN /\ promises' = q.promises
          /\ inv' = [q.inv EXCEPT ![nextInv].old = o]
          /\ nextInv' = q.nextInv
    /\ shards' = CacheDelete(shards, objs[o].id)
    /\ objs' = [objs EXCEPT ![o].session = FALSE]
    /\ UNCHANGED <<mgrVars, nextObj, released, obs>>
    /\ UNCHANGED worker

\* The close codes after which a shard is not connected again
\* (WSCloseCodes: NotAuthenticated, AuthenticationFailed, InvalidShard,
\* ShardingRequired, InvalidVersion, InvalidIntents, DisallowedIntents).
FatalCodes == {4003, 4004, 4010, 4011, 4012, 4013, 4014}

\* The close codes of the runs: UnknownError, AuthenticationFailed,
\* DisallowedIntents.
CloseCodes == {4000, 4004, 4014}

\* The shard is the instance of its id in the shard set.
InFleet(o) == objs[o].status # "none" /\ shards[objs[o].id] = o

\* A shard's connection was closed with a fatal code: the shard is taken out
\* of the shard set, an error is emitted, nothing is queued.  The gateway
\* answers an identify it refuses with such a close, so the shard may be ready
\* or have its identify in flight; in flight, no GatewayStatus follows.
FatalClose(o) ==
    /\ ~MicrotaskPending
    /\ InFleet(o)
    /\ objs[o].status \in {"Connected", "Connecting"}
    /\ shards' = CacheDelete(shards, objs[o].id)
    /\ objs' = [objs EXCEPT ![o].status = "Closed", ![o].session = FALSE]
    /\ obs' = [obs EXCEPT !.fatal = @ \cup {objs[o].id},
                          !.errors = @ \cup {objs[o].id}]
    /\ UNCHANGED <<mgrVars, nextObj, promises, released, inv, nextInv, worker>>

\* The shard reports CannotReconnect with the close code: a restart through
\* the manager, unless the code is fatal.
CannotReconnect(o, code) ==
    IF code \in FatalCodes THEN FatalClose(o) ELSE ScheduleShardRestart(o)

\* destroy(): every shard of the shard set is destroyed; the queue is left
\* as it is.
Destroy ==
    /\ ~MicrotaskPending
    /\ ~obs.destroyed
    /\ spawnPc = "queued"
    /\ objs' = [o \in InvSet |->
                   IF InFleet(o)
                   THEN [objs[o] EXCEPT !.status = "Destroyed", !.session = FALSE]
                   ELSE objs[o]]
    /\ obs' = [obs EXCEPT !.destroyed = TRUE]
    /\ UNCHANGED <<mgrVars, shards, nextObj, promises, released, inv, nextInv, worker>>

\* --------------------------------------------------- shard runtime: steps
mgrAll == <<token, options, gatewayInfo, spawnPc, spawnList, shards, objs, nextObj,
            promises, released, inv, nextInv, obs>>

\* The manager posts a message to the runtime.  Identify is the grant of an
\* admission the runtime asked for; a PayloadDispatch carries a payload.
ManagerPost(type) ==
    /\ worker.posted < MaxMsgs
    /\ type = "Identify" => worker.requested
    /\ worker' = [worker EXCEPT
                     !.inbox = Append(@, [type |-> type, data |-> worker.posted + 1]),
                     !.posted = @ + 1,
                     !.requested = IF type = "Identify" THEN FALSE ELSE @]
    /\ UNCHANGED mgrAll

\* parentPort.on('message', ...): the next message is handled.
WorkerOnMessage ==
    /\ worker.inbox # <<>>
    /\ LET message == Head(worker.inbox)
           w == [worker EXCEPT !.inbox = Tail(@),
                               !.grants = IF message.type = "Identify"
                                          THEN @ + 1 ELSE @,
                               !.fetches = IF message.type = "FetchSessionData"
                                           THEN 1 ELSE @]
           call == Handler(message.type)
       IN worker' =
            CASE call = "newSession" -> NewSession(w)
              [] call = "destroyReset" -> DestroyConnection(w, TRUE, message.type)
              [] call = "destroy" -> DestroyConnection(w, FALSE, message.type)
              [] call = "queueWSPayload" -> QueueWSPayload(w, message.data)
              [] OTHER -> w
    /\ UNCHANGED mgrAll

\* The runtime opens its transport: at its start, or to reconnect.
WorkerOpen ==
    /\ ~worker.open
    /\ worker.status \in {"Disconnected", "Reconnecting"}
    /\ worker' = [worker EXCEPT !.open = TRUE, !.status = "WaitingForHello",
                                !.connIdent = 0, !.connResume = 0, !.authsSince = 0]
    /\ UNCHANGED mgrAll

\* HELLO: the heartbeat starts; with a session the runtime resumes, without
\* one it identifies if it holds a grant and asks for admission otherwise.
WorkerHello ==
    /\ worker.open
    /\ worker.status = "WaitingForHello"
    /\ LET w == [worker EXCEPT !.helloed = TRUE, !.hb = TRUE, !.acked = TRUE]
       IN worker' =
            IF w.sid # 0 THEN SendResume(w)
            ELSE IF w.admitted THEN SendIdentify(w)
            ELSE RequestAdmission(w, "Identify")
    /\ UNCHANGED mgrAll

\* Ready: the session is adopted, the manager is told.
WorkerReady ==
    /\ worker.status = "Identifying"
    /\ worker.sessions < MaxSess
    /\ worker' = Post([worker EXCEPT !.status = "Ready", !.sid = worker.sessions + 1,
                                     !.seq = 0, !.high = 0, !.stale = FALSE,
                                     !.inval = "none",
                                     !.sessions = @ + 1], "GatewayStatus")
    /\ UNCHANGED mgrAll

\* RESUMED: the session is kept.
WorkerResumed ==
    /\ worker.status = "Resuming"
    /\ worker' = [worker EXCEPT !.status = "Ready", !.inval = "none",
                                !.resume = NoAuth]
    /\ UNCHANGED mgrAll

\* A dispatch numbered s, in or out of order: seq follows, the dispatch is
\* forwarded.
WorkerDispatch(s) ==
    /\ worker.status = "Ready"
    /\ worker.subscribed => Len(worker.emitted) < MaxEmit
    /\ worker' = Forward([worker EXCEPT !.seq = SeqAfter(@, s),
                                        !.high = IF s > @ THEN s ELSE @,
                                        !.stale = @ \/ s < worker.seq], s)
    /\ UNCHANGED mgrAll

\* The manager handles a Dispatch message of the runtime: the dispatch is
\* emitted to the subscriber.
ManagerOnDispatch ==
    /\ worker.channel # <<>>
    /\ LET k == ChannelNext(worker.channel)
       IN worker' = [worker EXCEPT
                        !.delivered = Append(@, worker.channel[k]),
                        !.channel = [j \in 1..(Len(@) - 1) |->
                                        IF j < k THEN @[j] ELSE @[j + 1]]]
    /\ UNCHANGED mgrAll

\* INVALID_SESSION(d): resumable, the runtime resumes; otherwise it discards
\* the session and asks to be admitted again.
WorkerInvalidSession(resumable) ==
    /\ worker.status \in {"Identifying", "Resuming", "Ready"}
    /\ LET w == [worker EXCEPT
                    !.authsSince = 0,
                    !.inval = IF resumable /\ worker.sid # 0 THEN "resumable" ELSE "final",
                    !.invalid = IF resumable \/ worker.sid = 0 THEN @
                                ELSE @ \cup {worker.sid}]
       IN worker' =
            IF Resumable(resumable, w.sid)
            THEN SendResume(w)
            ELSE RequestAdmission(DiscardSession(w),
                                  IF w.status = "Identifying"
                                  THEN "GatewayStatus" ELSE "ScheduleIdentify")
    /\ UNCHANGED mgrAll

\* A queued payload is written.
WorkerSend ==
    /\ worker.status = "Ready"
    /\ worker.sendQueue # <<>>
    /\ worker' = WriteFrame([worker EXCEPT !.sendQueue = Tail(@)])
    /\ UNCHANGED mgrAll

\* The heartbeat timer fires: a connection whose last heartbeat was not
\* acknowledged is closed with 4000 and the runtime reconnects by itself;
\* otherwise a heartbeat is written.
WorkerHeartbeatDue ==
    /\ worker.hb
    /\ worker' =
         IF Zombie(worker)
         THEN Post(CloseTransport(worker, "Zombie", 4000, "Reconnecting"),
                   "ConnectionStatusUpdate")
         ELSE WriteHeartbeat(worker, "timer")
    /\ UNCHANGED mgrAll

\* HEARTBEAT_ACK
WorkerHeartbeatAck ==
    /\ worker.hb
    /\ ~worker.acked
    /\ worker' = [worker EXCEPT !.acked = TRUE, !.unacked = 0]
    /\ UNCHANGED mgrAll

\* HEARTBEAT of the gateway: a heartbeat is written at once.
WorkerHeartbeatRequest ==
    /\ worker.status = "Ready"
    /\ worker' = WriteHeartbeat(worker, "request")
    /\ UNCHANGED mgrAll

\* The gateway closes the transport with a code.
WorkerClose(code) ==
    /\ worker.open
    /\ worker' =
         IF ClosePolicy(code) = "CannotReconnect"
         THEN Post(CloseTransport(worker, "Close", code, "Closed"), "CannotReconnect")
         ELSE Post(CloseTransport(worker, "Close", code, "Reconnecting"),
                   "ConnectionStatusUpdate")
    /\ UNCHANGED mgrAll

\* ------------------------------------------------------------------- ping
\* a / b of two non-negative integers, as JavaScript numbers divide: the
\* quotient num/den, Infinity, or NaN for 0 / 0.
Divide(a, b) ==
    IF b # 0 THEN [kind |-> "number", num |-> a, den |-> b]
    ELSE IF a = 0 THEN [kind |-> "NaN", num |-> 0, den |-> 0]
    ELSE [kind |-> "Infinity", num |-> 0, den |-> 0]

\* The ids of the shard set.
ShardIds == {s \in IdSet : shards[s] # 0}

\* this.shards.reduce((a, b) => a + b.ping, 0)
RECURSIVE SumPings(_)
SumPings(ids) ==
    IF ids = {} THEN 0
    ELSE LET s == CHOOSE x \in ids : TRUE
         IN objs[shards[s]].ping + SumPings(ids \ {s})

\* get ping()
Ping == Divide(SumPings(ShardIds), Cardinality(ShardIds))

\* The caller reads the manager's ping.
ReadPing ==
    /\ ~MicrotaskPending
    /\ obs' = [obs EXCEPT !.ping = Ping]
    /\ UNCHANGED <<mgrVars, shards, objs, nextObj, promises, released, inv, nextInv,
                   worker>>

\* A shard of the shard set reports a ping sample.
UpdatePing(o, ms) ==
    /\ ~MicrotaskPending
    /\ InFleet(o)
    /\ objs' = [objs EXCEPT ![o].ping = ms]
    /\ UNCHANGED <<mgrVars, shards, nextObj, promises, released, inv, nextInv, obs,
                   worker>>

\* ------------------------------------------------------------------- time
\* One second passes: the running sleep() timers count down.
Tick ==
    /\ ~MicrotaskPending
    /\ inv' = [i \in InvSet |-> [inv[i] EXCEPT !.timer = IF @ > 0 THEN @ - 1 ELSE 0]]
    /\ obs' = [obs EXCEPT !.sinceGrant = Min(@ + 1, IdentifyCooldown),
                          !.fetchAge = IF \E i \in InvSet : inv[i].pc = "limit"
                                       THEN Min(@ + 1, MaxReset) ELSE @]
    /\ UNCHANGED <<mgrVars, shards, objs, nextObj, promises, released, nextInv>>
    /\ UNCHANGED worker

Next ==
    \/ SetToken
    \/ SpawnCall
    \/ \E resp \in MainResponses : SpawnGateway(resp)
    \/ SpawnGatewayFail
    \/ \E i \in InvSet : Acquire(i)
    \/ \E i \in InvSet, resp \in GatewayResponses : FetchResolve(i, resp)
    \/ \E i \in InvSet : FetchReject(i)
    \/ \E i \in InvSet : LimitElapsed(i)
    \/ \E i \in InvSet, status \in {"Ready", "InvalidSession"} : ConnectReply(i, status)
    \/ \E i \in InvSet : CooldownElapsed(i)
    \/ \E o \in InvSet : ScheduleIdentify(o)
    \/ \E o \in InvSet : ScheduleShardRestart(o)
    \/ Tick

Spec == Init /\ [][Next]_vars

\* A step of the manager's event loop: a ready continuation runs, a timer
\* fires, time passes, a REST call of handleSessionLimit is answered.
ManagerStep ==
    \/ \E i \in InvSet : Acquire(i)
    \/ \E i \in InvSet, resp \in GatewayResponses : FetchResolve(i, resp)
    \/ \E i \in InvSet : LimitElapsed(i)
    \/ \E i \in InvSet : CooldownElapsed(i)
    \/ Tick

\* The event loop does not stop while it has something to run; nothing is
\* assumed of the shards.
FairSpec == Spec /\ WF_vars(ManagerStep)

\* The runs of a spawn of MaxShards shards in which, besides, the REST calls
\* succeed and every shard answers the identify it was granted.
LiveInit == InitWith({Option("number", MaxShards, <<>>, 0)})

LiveNext ==
    \/ SetToken
    \/ SpawnCall
    \/ \E resp \in MainResponses : SpawnGateway(resp)
    \/ \E i \in InvSet : Acquire(i)
    \/ \E i \in InvSet, resp \in GatewayResponses : FetchResolve(i, resp)
    \/ \E i \in InvSet : LimitElapsed(i)
    \/ \E i \in InvSet, status \in {"Ready", "InvalidSession"} : ConnectReply(i, status)
    \/ \E i \in InvSet : CooldownElapsed(i)
    \/ \E o \in InvSet : ScheduleIdentify(o)
    \/ \E o \in InvSet : ScheduleShardRestart(o)
    \/ Tick

LiveSpec ==
    /\ LiveInit
    /\ [][LiveNext]_vars
    /\ WF_vars(ManagerStep \/ \E i \in InvSet, status \in {"Ready", "InvalidSession"} :
                                 ConnectReply(i, status))

\* The runs of spawn() alone, over every configuration of options.shards.
ListOptions ==
    {Option("auto", 0, <<>>, t) : t \in 0..MaxShards}
    \cup {Option("number", n, <<>>, t) : n \in 0..MaxShards, t \in 0..MaxShards}
    \cup {Option("list", 0, l, t) :
            l \in UNION {[1..k -> Items] : k \in 0..MaxList}, t \in 0..MaxShards}

ListInit == InitWith(ListOptions)

ListNext ==
    \/ SetToken
    \/ SpawnCall
    \/ \E resp \in GatewayResponses : SpawnGateway(resp)
    \/ SpawnGatewayFail

ListSpec == ListInit /\ [][ListNext]_vars

\* The runs with shards closed by the gateway; among the configurations, an
\* array with an id that is not below totalShards.
FleetOptions ==
    {Option("number", MaxShards, <<>>, 0), Option("list", 0, <<Num(MaxShards)>>, 1)}

FleetInit == InitWith(FleetOptions)

FleetNext ==
    \/ SetToken
    \/ SpawnCall
    \/ \E resp \in MainResponses : SpawnGateway(resp)
    \/ SpawnGatewayFail
    \/ \E i \in InvSet : Acquire(i)
    \/ \E i \in InvSet, resp \in GatewayResponses : FetchResolve(i, resp)
    \/ \E i \in InvSet : FetchReject(i)
    \/ \E i \in InvSet : LimitElapsed(i)
    \/ \E i \in InvSet, status \in {"Ready", "InvalidSession"} : ConnectReply(i, status)
    \/ \E i \in InvSet : CooldownElapsed(i)
    \/ \E o \in InvSet : ScheduleIdentify(o)
    \/ \E o \in InvSet, code \in CloseCodes : CannotReconnect(o, code)
    \/ Tick

FleetSpec == FleetInit /\ [][FleetNext]_vars

\* The runs of a spawn of MaxShards shards with a call of destroy().
DestroyNext ==
    \/ LiveNext
    \/ Destroy

DestroySpec == LiveInit /\ [][DestroyNext]_vars

\* The runs of LiveSpec with, besides, shards closed with a fatal code.
FatalNext ==
    \/ LiveNext
    \/ \E o \in InvSet, code \in FatalCodes \cap CloseCodes : CannotReconnect(o, code)

FatalSpec ==
    /\ LiveInit
    /\ [][FatalNext]_vars
    /\ WF_vars(ManagerStep \/ \E i \in InvSet, status \in {"Ready", "InvalidSession"} :
                                 ConnectReply(i, status))

\* The runs in which shards are created, report their ping, and the
\* manager's ping is read.
PingNext ==
    \/ SetToken
    \/ SpawnCall
    \/ \E resp \in MainResponses : SpawnGateway(resp)
    \/ \E i \in InvSet : Acquire(i)
    \/ \E i \in InvSet : FetchReject(i)
    \/ \E o \in InvSet, ms \in 0..MaxPing : UpdatePing(o, ms)
    \/ ReadPing

PingSpec == LiveInit /\ [][PingNext]_vars

\* The runs with every way out of queueShard: among the configurations, an
\* array that names one shard several times, whose later requests find the
\* shard connected; shard.connect may reject.
SlotOptions ==
    {Option("number", MaxShards, <<>>, 0),
     Option("list", 0, <<Num(0), Num(0), Num(0)>>, 1)}

SlotInit == InitWith(SlotOptions)

SlotNext ==
    \/ Next
    \/ \E i \in InvSet : ConnectReject(i)

SlotSpec == SlotInit /\ [][SlotNext]_vars

\* The runs of one shard with the calls of spawn, scheduleIdentify,
\* scheduleShardRestart and destroy in any order.
SetInit == InitWith({Option("number", 1, <<>>, 0)})

\* The gateway has session starts left.
SetResponses == {r \in MainResponses : ~LimitReached(r)}

SetNext ==
    \/ SetToken
    \/ SpawnCall
    \/ \E resp \in SetResponses : SpawnGateway(resp)
    \/ \E i \in InvSet : Acquire(i)
    \/ \E i \in InvSet, resp \in SetResponses : FetchResolve(i, resp)
    \/ \E i \in InvSet, status \in {"Ready", "InvalidSession"} : ConnectReply(i, status)
    \/ \E i \in InvSet : CooldownElapsed(i)
    \/ \E o \in InvSet : ScheduleIdentify(o)
    \/ \E o \in InvSet : ScheduleShardRestart(o)
    \/ \E o \in InvSet : ShardDied(o)
    \/ Destroy
    \/ Tick

SetSpec == SetInit /\ [][SetNext]_vars

\* The runs of one shard runtime and its control channel.
WorkerStart == InitWith({Option("number", 1, <<>>, 0)})

WorkerNext ==
    \/ \E type \in MasterMessageTypes : ManagerPost(type)
    \/ WorkerOnMessage
    \/ WorkerOpen
    \/ WorkerHello
    \/ WorkerReady
    \/ WorkerResumed
    \/ \E s \in 1..MaxSeq : WorkerDispatch(s)
    \/ \E resumable \in BOOLEAN : WorkerInvalidSession(resumable)
    \/ WorkerSend

WorkerSpec == WorkerStart /\ [][WorkerNext]_vars

\* The handshakes of a shard runtime, one connection after the other: the
\* manager grants admissions and hands payloads over, the gateway answers,
\* acknowledges heartbeats, invalidates sessions and closes.
HandshakeNext ==
    \/ \E type \in {"Identify", "PayloadDispatch"} : ManagerPost(type)
    \/ WorkerOnMessage
    \/ WorkerOpen
    \/ WorkerHello
    \/ WorkerReady
    \/ WorkerResumed
    \/ \E resumable \in BOOLEAN : WorkerInvalidSession(resumable)
    \/ WorkerSend
    \/ WorkerHeartbeatDue
    \/ WorkerHeartbeatAck
    \/ WorkerClose(WSCloseCode("UnknownError"))

HandshakeSpec == WorkerStart /\ [][HandshakeNext]_vars

\* The heartbeats and dispatches of a shard runtime, one connection after the
\* other.
BeatNext ==
    \/ ManagerPost("Identify")
    \/ WorkerOnMessage
    \/ WorkerOpen
    \/ WorkerHello
    \/ WorkerReady
    \/ WorkerResumed
    \/ \E s \in 1..MaxSeq : WorkerDispatch(s)
    \/ \E resumable \in BOOLEAN : WorkerInvalidSession(resumable)
    \/ WorkerHeartbeatDue
    \/ WorkerHeartbeatAck
    \/ WorkerHeartbeatRequest

BeatSpec == WorkerStart /\ [][BeatNext]_vars

\* The close codes a gateway can close with: those of the protocol, those of
\* WSCloseCodes and one outside of both.
AllCloseCodes == {1000, 1001, 1006, 4006, 4015, 4999} \cup
                 {WSCloseCode(WSCloseCodesEnum[k].name) : k \in 1..Len(WSCloseCodesEnum)}

\* The closes of a shard runtime, one connection after the other.
CloseNext ==
    \/ ManagerPost("Identify")
    \/ WorkerOnMessage
    \/ WorkerOpen
    \/ WorkerHello
    \/ WorkerReady
    \/ WorkerResumed
    \/ \E s \in 1..MaxSeq : WorkerDispatch(s)
    \/ \E code \in AllCloseCodes : WorkerClose(code)

CloseSpec == WorkerStart /\ [][CloseNext]_vars

\* The dispatches of a shard runtime followed up to a subscriber, over closes,
\* reconnects and resumes.
OrderStart ==
    StartWith({Option("number", 1, <<>>, 0)}, [WorkerInit EXCEPT !.subscribed = TRUE])

OrderNext ==
    \/ ManagerPost("Identify")
    \/ WorkerOnMessage
    \/ WorkerOpen
    \/ WorkerHello
    \/ WorkerReady
    \/ WorkerResumed
    \/ \E s \in 1..MaxSeq : WorkerDispatch(s)
    \/ ManagerOnDispatch
    \/ WorkerClose(WSCloseCode("UnknownError"))

OrderSpec == OrderStart /\ [][OrderNext]_vars

\* ================================================================ claims

Finished(i) == inv[i].pc \in {"done", "failed"}

\* The queueShard invocations made so far.
Made == 1..(nextInv - 1)

\* C1: at any instant at most one queueShard invocation is between the
\* resolution of its queue.wait() and its queue.shift(); hence at most one
\* shard.connect is in flight.
C1_MutualExclusion ==
    /\ Cardinality(Holders) <= 1
    /\ Cardinality({i \in InvSet : inv[i].pc = "connect"}) <= 1

\* An identify is in flight while another request waits for the slot.
C1_Witness ==
    \E i, j \in InvSet :
        /\ inv[i].pc = "connect"
        /\ inv[j].pc = "wait"
        /\ inv[j].id # inv[i].id

\* C2: any two consecutive identify grants are at least 5 s apart, whatever
\* the arrival times of the requests.
C2_IdentifyRate == obs.minGap >= IdentifyCooldown

\* The shard of id s is in the shard set and ready.
Online(s) == shards[s] # 0 /\ objs[shards[s]].status = "Connected"

Ascending(q) == \A k \in 1..(Len(q) - 1) : q[k] < q[k + 1]

\* spawn() queued N >= 2 different shards and nothing else was requested
\* since: no scheduleIdentify, no scheduleShardRestart, no InvalidSession.
ColdSpawn ==
    /\ spawnPc = "queued"
    /\ Len(spawnList) >= 2
    /\ Cardinality(Range(spawnList)) = Len(spawnList)
    /\ Made = 1..Len(spawnList)

\* C3: after a cold spawn of N >= 2 shards whose identifies are all answered
\* Ready, consecutive identify grants are at least 5 s apart, and once every
\* queueShard call of spawn() has returned all N shards exist and are ready.
C3_ColdSpawn ==
    ColdSpawn =>
        /\ obs.minGap >= IdentifyCooldown
        /\ (\A i \in Made : inv[i].pc = "done") =>
               \A k \in 1..Len(spawnList) : Online(spawnList[k])

\* A cold spawn is complete: two identifies were granted and answered Ready.
C3_Witness ==
    /\ ColdSpawn
    /\ \A i \in Made : inv[i].pc = "done" /\ inv[i].granted
    /\ obs.grants = 2

\* The slot is acquired in the order of the queueShard calls.
Fifo == \A k \in 1..Len(obs.acquired) : obs.acquired[k] = k

\* spawn() over 0..N-1 queues the shards in ascending id order.
SpawnAscending ==
    (options.mode = "number" /\ spawnPc = "queued") =>
        \A i \in 1..Len(spawnList) : inv[i].origin = "spawn" /\ inv[i].id = i - 1

\* C4 as claimed: the slot is granted in the order of the requests, and
\* spawn() over 0..N-1 admits the shards and brings them online in ascending
\* id order.
C4_FifoOnlineOrder ==
    /\ Fifo
    /\ SpawnAscending
    /\ options.mode = "number" => Ascending(obs.online)

\* C4 amended: the slot is granted in the order of the requests; spawn() over
\* 0..N-1 admits the shards in ascending id order, and they come online in
\* that order as long as no identify was answered InvalidSession.
C4_Fifo ==
    /\ Fifo
    /\ SpawnAscending
    /\ (options.mode = "number" /\ \A i \in InvSet : inv[i].origin # "requeue")
           => Ascending(obs.online)

\* Three requests were admitted one after the other, two shards are online.
C4_Witness ==
    /\ Len(obs.acquired) = 3
    /\ options.mode = "number"
    /\ Len(obs.online) = 2
    /\ \A i \in InvSet : inv[i].origin # "requeue"

\* C5: every identify grant follows a fetch of the gateway info made by the
\* same admission; with remaining = 0 the grant comes no earlier than
\* reset_after after that fetch, with remaining > 0 it comes with the fetch.
C5_SessionLimit ==
    \A i \in InvSet :
        inv[i].pc = "connect" =>
            /\ inv[i].fetched
            /\ gatewayInfo.remaining = 0 => obs.grantAge >= gatewayInfo.reset_after
            /\ gatewayInfo.remaining > 0 => obs.grantAge = 0

\* An identify was granted after the session limit was found exhausted with a
\* reset time that is not zero.
C5_Witness ==
    \E i \in InvSet :
        /\ inv[i].pc = "connect"
        /\ gatewayInfo.remaining = 0
        /\ gatewayInfo.reset_after = MaxReset
        /\ obs.grantAge >= MaxReset
        /\ MaxReset > 0

\* k is before j in the admission queue.
Before(k, j) ==
    \E a, b \in 1..Len(promises) : a < b /\ promises[a] = k /\ promises[b] = j

\* C6: a shard answered InvalidSession is queued again behind every request
\* that was in the queue at that moment (the answered invocation, which holds
\* the slot, and those waiting), and is not admitted before the slot was
\* released and each of them has had its turn.
C6_InvalidRequeue ==
    \A j \in InvSet :
        inv[j].origin = "requeue" =>
            \A k \in inv[j].ahead :
                IF inv[j].pc = "wait"
                THEN Finished(k) \/ Before(k, j)
                ELSE Finished(k)

\* A requeued shard is admitted again, after a request it was queued behind.
C6_Witness ==
    \E j \in InvSet :
        /\ inv[j].origin = "requeue"
        /\ Cardinality(inv[j].ahead) >= 2
        /\ inv[j].pc = "connect"

HasSession(s) == shards[s] # 0 /\ objs[shards[s]].session

\* C7: a shard whose identify was answered InvalidSession has no session, is
\* admitted again and eventually becomes ready, when REST calls succeed and
\* shards answer the identifies they are granted.
C7_InvalidThenReady ==
    /\ [](\A s \in IdSet : s \in obs.invalidated => ~HasSession(s))
    /\ \A s \in 0..(MaxShards - 1) : (s \in obs.invalidated) ~> Online(s)

\* A shard that was queued again after InvalidSession identified and is ready.
C7_Witness ==
    \E j \in InvSet :
        /\ inv[j].origin = "requeue"
        /\ inv[j].granted
        /\ inv[j].replies = 1
        /\ Online(inv[j].id)
        /\ objs[inv[j].shard].session

\* C8: an admitted shard that sends no GatewayStatus does not hold the slot
\* forever: the manager gives the identify up after the timeout, and the
\* requests waiting behind it are admitted.
C8_AdmissionTimeout ==
    \A i \in InvSet :
        /\ (inv[i].pc = "connect") ~> (inv[i].pc # "connect")
        /\ (inv[i].pc = "wait") ~> (inv[i].pc # "wait")

\* 0, 1, ..., n-1
UpTo(n) == [k \in 1..n |-> k - 1]

\* The numbers of a configured array, in order.
NumbersOf(list) ==
    LET kept == SelectSeq(list, LAMBDA it : it.k = "number" /\ ~it.nan)
    IN [k \in 1..Len(kept) |-> kept[k].v]

\* C10: the shard list of spawn(): 0..R-1 and totalShards = R for 'auto'
\* (R the gateway's shard count), 0..N-1 and totalShards = N for an integer
\* N, and for an array its numeric, non-NaN entries in order with totalShards
\* as configured.
C10_ShardList ==
    spawnPc = "queued" =>
        /\ options.mode = "auto" =>
               /\ spawnList = UpTo(gatewayInfo.shards)
               /\ options.totalShards = gatewayInfo.shards
        /\ options.mode = "number" =>
               /\ spawnList = UpTo(options.n)
               /\ options.totalShards = options.n
        /\ options.mode = "list" =>
               /\ spawnList = NumbersOf(options.list)
               /\ options.totalShards = obs.configTotal
        /\ Len(spawnList) = nextInv - 1
        /\ \A i \in Made : inv[i].id = spawnList[i]

\* An array with a NaN and a non-numeric entry was filtered down to its numbers.
C10_Witness ==
    /\ spawnPc = "queued"
    /\ options.mode = "list"
    /\ \E a, b \in 1..Len(options.list) :
           options.list[a] = NaNItem /\ options.list[b] = StrItem
    /\ Len(spawnList) >= 1

\* C11: every shard the manager creates, in every configuration mode, has an
\* id with 0 <= id < totalShards (the pair is given to the instance when it is
\* created and not assigned again).
C11_IdentityRange ==
    \A o \in InvSet :
        objs[o].status # "none" => (0 <= objs[o].id /\ objs[o].id < objs[o].total)

\* Nothing was fetched, queued, created or granted.
NothingStarted ==
    /\ gatewayInfo = NoGateway
    /\ nextInv = 1
    /\ promises = <<>>
    /\ nextObj = 1
    /\ \A s \in IdSet : shards[s] = 0
    /\ obs.grants = 0

\* C12: spawn() called without a token fails before its REST call, and no
\* shard is created, queued or identified.
C12_MissingToken ==
    /\ (~token /\ spawnPc # "idle") => spawnPc = "noToken"
    /\ spawnPc = "noToken" => NothingStarted

\* spawn() failed for want of a token, which was set afterwards.
C12_Witness == spawnPc = "noToken" /\ token

\* spawn() rejects: it threw, its REST call failed, or one of the queueShard
\* calls it awaits failed.
SpawnRejected ==
    \/ spawnPc \in {"noToken", "badConfig", "restFailed"}
    \/ \E i \in InvSet : inv[i].origin = "spawn" /\ inv[i].pc = "failed"

\* C13: when spawn() rejects for a bad shard configuration or a failed
\* gateway-info REST call, no shard is created, queued or identified.
C13_StartupFailure ==
    (SpawnRejected /\ spawnPc # "noToken") =>
        /\ nextInv = 1
        /\ nextObj = 1
        /\ obs.grants = 0

C16_FleetIsolation ==
    /\ [][obs.fatal' # obs.fatal =>
             \A o \in InvSet : objs'[o] # objs[o] => objs[o].id \in obs.fatal' \ obs.fatal]_vars
    /\ \A i \in InvSet : (inv[i].pc = "wait" /\ obs.fatal # {}) ~> (inv[i].pc # "wait")

\* C17: after destroy() every shard of the shard set is closed, also when
\* requests were waiting in the admission queue: none is created, connected
\* or ready afterwards.
C17_GracefulDestroy ==
    obs.destroyed =>
        \A s \in IdSet : shards[s] # 0 => objs[shards[s]].status = "Destroyed"

\* C18: a Destroy message discards the session and drops the queued
\* payloads, so that the next connection identifies; a Reconnect message
\* keeps the session, so that the next connection resumes with the
\* session_id and seq held at the teardown.
C18_DestroyVsReconnect ==
    /\ worker.teardown = "Destroy" =>
           /\ worker.authAfter.kind # "resume"
           /\ worker.authAfter.kind = "none" => worker.sid = 0
           /\ Range(worker.sendQueue) \cap worker.preQueue = {}
    /\ (worker.teardown = "Reconnect" /\ worker.pre.sid # 0) =>
           /\ worker.authAfter.kind = "none" =>
                  (worker.sid = worker.pre.sid /\ worker.seq = worker.pre.seq)
           /\ worker.authAfter.kind # "none" =>
                  worker.authAfter = [kind |-> "resume", sid |-> worker.pre.sid,
                                      seq |-> worker.pre.seq]

\* A session with dispatches and a queued payload was torn down by Destroy
\* and the runtime identified again.
C18_Witness ==
    /\ worker.teardown = "Destroy"
    /\ worker.pre.sid # 0 /\ worker.pre.seq > 0
    /\ worker.preQueue # {}
    /\ worker.authAfter.kind = "identify"

\* A session with dispatches was torn down by Reconnect and resumed.
C18_WitnessReconnect ==
    /\ worker.teardown = "Reconnect"
    /\ worker.pre.sid # 0 /\ worker.pre.seq > 0
    /\ worker.authAfter.kind = "resume"

\* C19: the runtime has written no more IDENTIFY frames than it has handled
\* Identify messages of the manager, and writes one only while it holds no
\* other use of the grant: each frame has its own grant.
C19_IdentifyWhenAdmitted ==
    /\ worker.identifies + (IF worker.admitted THEN 1 ELSE 0) <= worker.grants
    /\ worker.identifies <= worker.grants

\* The runtime identified a second time, after an INVALID_SESSION that was
\* not resumable.
C19_Witness ==
    /\ worker.identifies = 2
    /\ worker.grants = 2
    /\ "ScheduleIdentify" \in worker.sent

\* C20: a FetchSessionData message of the manager that the runtime has
\* handled was answered by a FetchSessionData message of the runtime.
C20_SessionSnapshot ==
    worker.fetches > 0 => "FetchSessionData" \in worker.sent

C22_AveragePing ==
    obs.ping.kind # "unread" =>
        /\ obs.ping.kind = "number"
        /\ ShardIds # {} =>
               /\ obs.ping.num = SumPings(ShardIds)
               /\ obs.ping.den = Cardinality(ShardIds)

\* C23: Identify as a grant, Destroy and Reconnect travel only from the
\* manager to the shard runtime; Debug, Dispatch, UpdatePing, GatewayStatus,
\* ConnectionStatusUpdate and CannotReconnect only from the runtime to the
\* manager: no message of the second kind is ever in the runtime's inbox, the
\* runtime never posts Destroy or Reconnect, and a grant is in the inbox or
\* handled only after the runtime asked for it.
C23_Direction ==
    /\ \A k \in 1..Len(worker.inbox) :
          /\ worker.inbox[k].type \in MasterMessageTypes
          /\ worker.inbox[k].type \notin {"Debug", "Dispatch", "UpdatePing", "GatewayStatus",
                                          "ConnectionStatusUpdate", "CannotReconnect"}
    /\ worker.sent \subseteq WorkerMessageTypes
    /\ worker.sent \cap {"Destroy", "Reconnect"} = {}
    /\ (worker.grants > 0 \/ \E k \in 1..Len(worker.inbox) : worker.inbox[k].type = "Identify")
          => worker.sent \cap {"Identify", "ScheduleIdentify", "GatewayStatus"} # {}

C23_Witness ==
    /\ \E k \in 1..Len(worker.inbox) : worker.inbox[k].type = "Reconnect"
    /\ worker.grants > 0
    /\ {"GatewayStatus", "Dispatch"} \subseteq worker.sent

\* C24: nothing is written to the gateway before HELLO: no heartbeat, no
\* IDENTIFY, no RESUME and no payload handed over by the manager; a payload
\* queued before HELLO is still queued until then.
C24_NoSendBeforeHello ==
    /\ ~worker.early
    /\ (worker.open /\ ~worker.helloed) =>
          /\ worker.connIdent = 0
          /\ worker.connResume = 0
          /\ worker.unacked = 0

C24_Witness ==
    /\ worker.open
    /\ ~worker.helloed
    /\ worker.sendQueue # <<>>

\* C25 as stated: a connection in Ready has had exactly one IDENTIFY or one
\* RESUME written on it, never both and never two.
C25_OneAuthPerReady ==
    worker.status = "Ready" => worker.connIdent + worker.connResume = 1

\* C25: a connection reaches Ready after exactly one IDENTIFY or RESUME
\* written since it opened or since the last INVALID_SESSION on it; a
\* connection whose RESUME was refused carries a RESUME and an IDENTIFY.
C25_OneAuthPerHandshake ==
    /\ worker.authsSince <= 1
    /\ worker.status \in {"Ready", "Identifying", "Resuming"} => worker.authsSince = 1

C25_Witness ==
    /\ worker.status = "Ready"
    /\ worker.connResume = 1
    /\ worker.connIdent = 1

\* C26: while a session lasts its seq never decreases, whatever the order of
\* the s of the dispatches, and RESUMED leaves seq as it was.
C26_SeqMonotone ==
    [][/\ (worker.sid # 0 /\ worker'.sid = worker.sid) => worker'.seq >= worker.seq
       /\ (worker.status = "Resuming" /\ worker'.status = "Ready")
             => worker'.seq = worker.seq]_vars

C26_Witness ==
    /\ worker.status = "Ready"
    /\ worker.stale
    /\ worker.seq = MaxSeq
    /\ worker.authAfter.kind = "resume"

\* C27 as stated: acked is true at every heartbeat written, and no two
\* heartbeats are written on a connection without an ack between them.
C27_AckedAtEverySend ==
    /\ worker.beatUnacked = "none"
    /\ worker.unacked <= 1

\* C27: acked is true at every heartbeat the timer writes; two heartbeats
\* without an ack between them are written only when the later one answers a
\* HEARTBEAT of the gateway.
C27_AckedAtTimerSend ==
    /\ worker.beatUnacked # "timer"
    /\ worker.unacked = 2 => worker.beatUnacked = "request"
    /\ worker.acked <=> worker.unacked = 0

C27_Witness ==
    /\ worker.unacked = 2
    /\ worker.status = "Ready"

C29_TimerOnlyWhenReady ==
    worker.hb => worker.status = "Ready"

\* C29: the heartbeat timer runs exactly from HELLO to the close of the
\* connection: it runs in Ready, and also in the states between HELLO and
\* Ready; it never runs in Disconnected, WaitingForHello, Reconnecting or Closed.
C29_TimerWhileConnected ==
    /\ worker.hb <=> (worker.open /\ worker.helloed)
    /\ worker.status = "Ready" => worker.hb
    /\ worker.status \in {"Disconnected", "WaitingForHello", "Reconnecting", "Closed"}
          => ~worker.hb

C29_Witness ==
    /\ worker.hb
    /\ worker.status = "Resuming"

\* C30: after a close with 4000, 4001, 4002, 4005, 4007, 4008, 4009, 4900 or
\* a code of the transport or an unknown one the runtime reconnects and
\* resumes; after a close with 4003, 4004 or 4010..4014 it reports
\* CannotReconnect and never reconnects; every code is of one kind or the other.
C30_ClosePolicy ==
    /\ FatalCloseCodes = {4003, 4004} \cup 4010..4014
    /\ FatalCloseCodes = FatalCodes
    /\ {4000, 4001, 4002, 4005, 4007, 4008, 4009, 4900} \subseteq AllCloseCodes \ FatalCloseCodes
    /\ \A code \in AllCloseCodes : ClosePolicy(code) \in {"resume", "CannotReconnect"}
    /\ "CannotReconnect" \in worker.sent =>
          /\ worker.status = "Closed"
          /\ ~worker.open
          /\ worker.closeCode \in FatalCloseCodes
    /\ worker.teardown = "Close" =>
          IF worker.closeCode \in {4003, 4004} \cup 4010..4014
          THEN /\ worker.status = "Closed"
               /\ "CannotReconnect" \in worker.sent
               /\ worker.authAfter.kind = "none"
          ELSE /\ worker.status # "Closed"
               /\ "CannotReconnect" \notin worker.sent
               /\ (worker.pre.sid # 0 /\ worker.authAfter.kind # "none") =>
                     worker.authAfter = [kind |-> "resume", sid |-> worker.pre.sid,
                                         seq |-> worker.pre.seq]

C30_Witness ==
    /\ worker.teardown = "Close"
    /\ worker.closeCode = 4009
    /\ worker.status = "Ready"
    /\ worker.pre.sid # 0

\* C31: after INVALID_SESSION with d = true the session is kept and a RESUME
\* with its session_id and seq is written; after INVALID_SESSION with
\* d = false the session is discarded, the runtime asks the manager for
\* admission and identifies only once it is granted; no RESUME is ever
\* written with a session invalidated that way.
C31_SessionInvalidation ==
    /\ worker.inval = "resumable" =>
          /\ worker.status = "Resuming"
          /\ worker.sid # 0
          /\ worker.resume = [kind |-> "resume", sid |-> worker.sid, seq |-> worker.seq]
    /\ worker.inval = "final" =>
          /\ worker.sid = 0
          /\ worker.status \in {"AwaitAdmission", "Identifying"}
          /\ worker.asked
          /\ worker.sent \cap {"ScheduleIdentify", "GatewayStatus"} # {}
    /\ worker.identifies <= worker.grants
    /\ worker.sid \notin worker.invalid
    /\ ~worker.badResume

C31_Witness ==
    /\ worker.invalid # {}
    /\ worker.status = "Resuming"
    /\ worker.inval = "resumable"
    /\ worker.seq > 0

\* C32: the dispatches given to the subscriber are, in the same order, those
\* the gateway emitted on the shard, none reordered, dropped or repeated, the
\* ones still in the channel following in order, also over closes, reconnects
\* and resumes.
C32_OrderPreserved ==
    worker.subscribed => worker.delivered \o worker.channel = worker.emitted

C32_Witness ==
    /\ worker.subscribed
    /\ Len(worker.delivered) = MaxEmit
    /\ worker.teardown = "Close"
    /\ worker.authAfter.kind = "resume"
    /\ \E k \in 1..(MaxEmit - 1) : worker.delivered[k] # worker.delivered[k + 1]

\* The invocation left queueShard at the Connected check.
ReturnedEarly(i) == inv[i].pc = "done" /\ ~inv[i].fetched

\* C33: an invocation that got the slot releases it exactly once, on every
\* way out (the return for a connected shard, the normal end, a failed
\* gateway-info call, a rejected shard.connect): the deferreds resolved are
\* exactly those of the finished invocations, a finished invocation has left
\* the queue, and no other invocation was taken out of it.
C33_SlotRelease ==
    /\ released = {i \in Made : Finished(i)}
    /\ \A i \in Made : Finished(i) <=> i \notin Range(promises)
    /\ Holders # {} => Head(promises) \in Holders
    /\ Len(promises) = Cardinality(Range(promises))

\* A shard.connect was rejected, a later request identified the shard and
\* the last one found it connected.
C33_Witness ==
    \E i, j, k \in InvSet :
        /\ inv[i].pc = "failed" /\ inv[i].granted
        /\ inv[j].pc = "done" /\ inv[j].replies = 1
        /\ ReturnedEarly(k)

\* C35: a request that gets the slot while its shard is connected causes no
\* gateway-info call, no wait, no identify grant and no cooldown and releases
\* the slot in the same step; the shard is left as it is.
C35_AlreadyConnected ==
    [][\A i \in InvSet :
          (/\ inv[i].pc = "wait"
           /\ inv'[i].pc # "wait"
           /\ shards[inv[i].id] # 0
           /\ objs[shards[inv[i].id]].status = "Connected")
          => /\ inv'[i].pc = "done"
             /\ ~inv'[i].fetched
             /\ ~inv'[i].granted
             /\ inv'[i].timer = 0
             /\ i \in released'
             /\ i \notin Range(promises')
             /\ gatewayInfo' = gatewayInfo
             /\ obs'.grants = obs.grants
             /\ obs'.sinceGrant = obs.sinceGrant
             /\ objs' = objs
             /\ shards' = shards]_vars

\* Two requests for a connected shard returned at the Connected check.
C35_Witness ==
    \E j, k \in InvSet :
        /\ j # k
        /\ ReturnedEarly(j)
        /\ ReturnedEarly(k)
        /\ inv[j].id = inv[k].id
        /\ Online(inv[j].id)
        /\ obs.grants = 1

\* The promise of spawn() is resolved: every queueShard call spawn() awaits
\* has ended without a failure.
SpawnResolved ==
    /\ spawnPc = "queued"
    /\ \A i \in InvSet : inv[i].origin = "spawn" => inv[i].pc = "done"

\* C34: when the promise of spawn() resolves, every shard of the shard list
\* has become ready, those answered InvalidSession at their first identify
\* and queued again included.
C34_SpawnCompletion ==
    SpawnResolved => \A k \in 1..Len(spawnList) : spawnList[k] \in Range(obs.online)

\* Every entry of the shard set is stored under its own id, and an instance
\* taken out of it by scheduleShardRestart never comes back.
ShardSetKeyed ==
    /\ \A s \in IdSet : shards[s] # 0 => objs[shards[s]].id = s
    /\ \A j \in InvSet : inv[j].origin = "restart" => shards[inv[j].id] # inv[j].old

\* C36 as stated: every entry is stored under its own id; a request of
\* scheduleIdentify creates no instance; after scheduleShardRestart the id is
\* absent from the shard set until the request of the restart gets the slot,
\* and that request creates the new instance.
C36_ShardSet ==
    /\ ShardSetKeyed
    /\ \A j \in InvSet :
          /\ (inv[j].origin = "identify" /\ inv[j].pc \notin {"wait", "none"})
                => objs[inv[j].shard].madeBy # j
          /\ inv[j].origin = "restart" =>
                /\ inv[j].pc = "wait" => shards[inv[j].id] = 0
                /\ inv[j].pc # "wait" => objs[inv[j].shard].madeBy = j

\* C36: every entry is stored under its own id and a removed instance never
\* comes back; after scheduleShardRestart the new instance is created by the
\* first request for the id that gets the slot: the request of the restart,
\* or a request that was already in the queue ahead of it, in which case the
\* id is back in the shard set while the request of the restart still waits;
\* a request of scheduleIdentify creates an instance only if the id was
\* removed by a restart requested after it.
C36_ShardSetFirstRequest ==
    /\ ShardSetKeyed
    /\ \A j \in InvSet :
          /\ (inv[j].origin = "identify" /\ inv[j].pc \notin {"wait", "none"}
                /\ objs[inv[j].shard].madeBy = j)
                => \E r \in InvSet : /\ r > j
                                     /\ inv[r].origin = "restart"
                                     /\ inv[r].id = inv[j].id
          /\ inv[j].origin = "restart" =>
                /\ (inv[j].pc = "wait" /\ shards[inv[j].id] # 0)
                      => objs[shards[inv[j].id]].madeBy \in inv[j].ahead
                /\ inv[j].pc # "wait" =>
                      /\ inv[j].shard # inv[j].old
                      /\ objs[inv[j].shard].madeBy \in inv[j].ahead \cup {j}

\* The request of a restart waits while a request queued before it has
\* already created the new instance of the id.
C36_Witness ==
    \E j \in InvSet :
        /\ inv[j].origin = "restart"
        /\ inv[j].pc = "wait"
        /\ shards[inv[j].id] # 0
        /\ objs[shards[inv[j].id]].madeBy \in inv[j].ahead

\* The message handled by a step of the runtime's message handler, with the
\* runtime as the handler finds it.
Handled == Head(worker.inbox)

BeforeCall ==
    [worker EXCEPT !.inbox = Tail(@),
                   !.grants = IF Handled.type = "Identify" THEN @ + 1 ELSE @,
                   !.fetches = IF Handled.type = "FetchSessionData" THEN 1 ELSE @]

\* C37: a message of the manager whose type is none of Identify, Destroy,
\* Reconnect and PayloadDispatch leaves the connection as it is and makes the
\* runtime send nothing; a message of one of these types has the effect of
\* one call of newSession, destroy with resetSession, destroy without it, and
\* queueWSPayload with the payload of the message, respectively.
C37_HandlerTotal ==
    [][Len(worker'.inbox) < Len(worker.inbox) =>
          /\ Handled.type \notin {"Identify", "Destroy", "Reconnect", "PayloadDispatch"}
                => \A f \in DOMAIN worker \ {"inbox", "fetches"} : worker'[f] = worker[f]
          /\ Handled.type = "Identify" => worker' = NewSession(BeforeCall)
          /\ Handled.type = "Destroy" =>
                worker' = DestroyConnection(BeforeCall, TRUE, "Destroy")
          /\ Handled.type = "Reconnect" =>
                worker' = DestroyConnection(BeforeCall, FALSE, "Reconnect")
          /\ Handled.type = "PayloadDispatch" =>
                worker' = QueueWSPayload(BeforeCall, Handled.data)]_vars

\* A message of an unhandled type was handled by a runtime that is connected
\* and holds a session, after messages of handled types.
C37_Witness ==
    /\ worker.fetches = 1
    /\ worker.status = "Ready"
    /\ worker.grants > 0
    /\ worker.sendQueue # <<>>

====
